---- MODULE Spec2Model ----
(***************************************************************************)
(* The task execution engine of the automation sidebar (AISidebar):        *)
(* executeSequence walks the task list of the task store, dispatches every *)
(* task to executeTask, threads the execution context between the tasks,   *)
(* and replays the list when its last task is a loop task.                 *)
(***************************************************************************)
EXTENDS Integers, Sequences, FiniteSets, TLC

VARIABLES
    tasks,            \* the task store's list: useTaskStore().tasks
    executionStatus,  \* the task store's status record, logs included
    webview,          \* webviewRef.current is set
    alerts,           \* the messages shown with alert(), oldest first
    run,              \* the activations of executeSequence, by slot
    pageView,         \* the latest calls on the page view, and who made them
    legacy            \* the legacy sidebar: its state and one executeAll run

vars == <<tasks, executionStatus, webview, alerts, run, pageView, legacy>>

----
\* Bounds of the model.

MaxTasks == 3      \* longest task list drawn at Init
MaxAlerts == 1     \* alerts kept before executeSequence is left alone
MaxCallTasks == 2  \* longest task list executeSequence is called with directly
MaxSlots == 2      \* activations of executeSequence that can coexist
MaxBody == 2       \* most tasks before the trailing loop task of a replayed list
MaxPanelTasks == 2 \* longest task list drawn with the Extracted Data panel in use
MaxNavigations == 1  \* clicks on extracted items between two clearLogs
MaxChainTasks == 2 \* most tasks drawn after the optional leading search task
MaxFrameTasks == 2 \* the same, for the lists of tasks that only pass the context on
MaxLegacyTasks == 2 \* longest list of the legacy sidebar

Slots == 1..MaxSlots

----
\* Values.

Undefined == "undefined"               \* JavaScript's undefined, for strings
Unset == << >>                         \* an absent number: <<n>> is n

Falsy(s) == s = Undefined \/ s = ""    \* !s for a string or undefined

CtxKeys == {"lastSearchQuery", "lastFoundText", "clickedElement",
            "typedText", "extractedData"}

EmptyContext == [k \in {} |-> Undefined]    \* {}

\* { ...a, ...b }
Spread(a, b) ==
    [k \in (DOMAIN a) \cup (DOMAIN b) |-> IF k \in DOMAIN b THEN b[k] ELSE a[k]]

\* context.key is truthy
Has(context, k) == k \in DOMAIN context /\ ~Falsy(context[k])

Config(q, text, sel, click, type, lc) ==
    [searchQuery |-> q, text |-> text, selector |-> sel,
     clickSelector |-> click, typeText |-> type, loopCount |-> lc]

NoConfig == Config(Undefined, Undefined, Undefined, Undefined, Undefined, Unset)

\* handleDrop's task, with the config the task card has filled in
NewTask(id, type, config) ==
    [id |-> id, type |-> type, config |-> config, status |-> "pending"]

Line(kind, n, text) == [kind |-> kind, n |-> n, text |-> text]

----
\* The task store (store/taskStore): the operations executeSequence calls.

\* updateTask(taskId, updates)
updateTask(ts, taskId, updates) ==
    [k \in DOMAIN ts |-> IF ts[k].id = taskId THEN Spread(ts[k], updates) ELSE ts[k]]

\* setExecutionStatus(status)
setExecutionStatus(es, status) == Spread(es, status)

\* addLog(message)
addLog(es, line) == [es EXCEPT !.logs = Append(@, line)]

\* addLog for each of the lines, in order
addLogs(es, lines) == [es EXCEPT !.logs = @ \o lines]

\* clearLogs()
clearLogs(es) == [es EXCEPT !.logs = << >>]

\* addTask(task)
addTask(ts, task) == Append(ts, task)

\* removeTask(taskId)
removeTask(ts, taskId) == SelectSeq(ts, LAMBDA t : t.id # taskId)

\* reorderTasks(dragIndex, hoverIndex), indices counted from 1: the dragged
\* task is taken out and put back at the hover index
reorderTasks(ts, dragIndex, hoverIndex) ==
    LET rest == [k \in 1..(Len(ts) - 1) |->
                   IF k < dragIndex THEN ts[k] ELSE ts[k + 1]]
    IN [k \in 1..Len(ts) |->
          IF k < hoverIndex THEN rest[k]
          ELSE IF k = hoverIndex THEN ts[dragIndex]
          ELSE rest[k - 1]]

\* clearTasks()
clearTasks(ts) == << >>

\* loadSequence(sequence)
loadSequence(ts, sequence) == sequence

InitialStatus ==
    [isExecuting |-> FALSE, isPaused |-> FALSE, currentTaskIndex |-> -1,
     totalTasks |-> 0, currentLoop |-> Unset, totalLoops |-> Unset,
     extractedData |-> Undefined, logs |-> << >>]

----
\* executeTask: the per-type handlers.  page is the page view's answer to the
\* handler's calls: "resolve", "none" when the injected script resolves
\* without a visible match, "reject" when the handler's first call throws or
\* rejects (as it does when the webview handed over is null).  The outcome
\* carries the lines the handler has passed to addLog.

PageAnswers == {"resolve", "none", "reject"}

Ok(value, logs) == [ok |-> TRUE, value |-> value, logs |-> logs]
Err(message, logs) == [ok |-> FALSE, message |-> message, logs |-> logs]

PageOk(page) == page # "reject"

\* the text of the previous find taken before the task's own
textToFindInheritedFirst(task, context) ==
    IF Has(context, "lastFoundText") THEN context["lastFoundText"]
    ELSE IF ~Falsy(task.config.text) THEN task.config.text
    ELSE task.config.selector

\* task.config.text || task.config.selector, then context.lastFoundText
textToFind(task, context) ==
    LET own == IF ~Falsy(task.config.text) THEN task.config.text
               ELSE task.config.selector
    IN IF Falsy(own) /\ Has(context, "lastFoundText")
       THEN context["lastFoundText"] ELSE own

\* a find handler that throws when the page shows no visible match
executeFindStrict(task, page, context) ==
    LET text == textToFind(task, context) IN
    IF ~PageOk(page) THEN Err("page error", << >>)
    ELSE IF Falsy(text) THEN Err("Text to find is required", << >>)
    ELSE IF page = "none"
    THEN Err("Text not found", <<Line("searching for", 0, text)>>)
    ELSE Ok([lastFoundText |-> text],
            <<Line("searching for", 0, text),
              Line("found and scrolled to", 0, text)>>)

executeFind(task, page, context) ==
    LET own == IF ~Falsy(task.config.text) THEN task.config.text
               ELSE task.config.selector
        text == textToFind(task, context)
        inherited == IF Falsy(own) /\ Has(context, "lastFoundText")
                     THEN <<Line("using text from previous find", 0, text)>>
                     ELSE << >>
    IN IF ~PageOk(page) THEN Err("page error", << >>)
       ELSE IF Falsy(text) THEN Err("Text to find is required", inherited)
       ELSE Ok([lastFoundText |-> text],
               inherited \o <<Line("searching for", 0, text),
                              IF page = "resolve"
                              THEN Line("found and scrolled to", 0, text)
                              ELSE Line("found but may not be visible", 0, text)>>)

\* a click handler without the branch for a click that follows a search
executeClickNoFirstLink(task, page, context) ==
    LET clickTarget == task.config.clickSelector IN
    IF Falsy(clickTarget) /\ Has(context, "lastFoundText")
    THEN IF PageOk(page)
         THEN Ok(Spread(context, [clickedElement |-> "found element"]),
                 <<Line("auto-targeting", 0, context["lastFoundText"]),
                   Line("clicked", 0, "found element")>>)
         ELSE Err("page error",
                  <<Line("auto-targeting", 0, context["lastFoundText"]),
                    Line("auto-click failed", 0, "page error")>>)
    ELSE IF ~Falsy(clickTarget)
    THEN IF PageOk(page) THEN Ok(context, << >>) ELSE Err("page error", << >>)
    ELSE Err("No click target specified and no context from previous Find/Search",
             << >>)

\* a click handler that looks at lastSearchQuery before lastFoundText
executeClickSearchFirst(task, page, context) ==
    LET clickTarget == task.config.clickSelector IN
    IF Falsy(clickTarget) /\ Has(context, "lastSearchQuery")
    THEN IF PageOk(page)
         THEN Ok(Spread(context, [clickedElement |-> "first link"]),
                 <<Line("auto-clicking first link", 0, ""),
                   Line("clicked", 0, "first link")>>)
         ELSE Err("page error", <<Line("auto-clicking first link", 0, "")>>)
    ELSE IF Falsy(clickTarget) /\ Has(context, "lastFoundText")
    THEN IF PageOk(page)
         THEN Ok(Spread(context, [clickedElement |-> "found element"]),
                 <<Line("auto-targeting", 0, context["lastFoundText"]),
                   Line("clicked", 0, "found element")>>)
         ELSE Err("page error",
                  <<Line("auto-targeting", 0, context["lastFoundText"]),
                    Line("auto-click failed", 0, "page error")>>)
    ELSE IF ~Falsy(clickTarget)
    THEN IF PageOk(page) THEN Ok(context, << >>) ELSE Err("page error", << >>)
    ELSE Err("No click target specified and no context from previous Find/Search",
             << >>)

\* a click handler that clicks the first link when it has no target at all
executeClickAnyLink(task, page, context) ==
    LET clickTarget == task.config.clickSelector IN
    IF Falsy(clickTarget) /\ ~Has(context, "lastFoundText")
    THEN IF PageOk(page)
         THEN Ok(Spread(context, [clickedElement |-> "first link"]),
                 <<Line("auto-clicking first link", 0, ""),
                   Line("clicked", 0, "first link")>>)
         ELSE Err("page error", <<Line("auto-clicking first link", 0, "")>>)
    ELSE IF Falsy(clickTarget) /\ Has(context, "lastFoundText")
    THEN IF PageOk(page)
         THEN Ok(Spread(context, [clickedElement |-> "found element"]),
                 <<Line("auto-targeting", 0, context["lastFoundText"]),
                   Line("clicked", 0, "found element")>>)
         ELSE Err("page error",
                  <<Line("auto-targeting", 0, context["lastFoundText"]),
                    Line("auto-click failed", 0, "page error")>>)
    ELSE IF PageOk(page) THEN Ok(context, << >>) ELSE Err("page error", << >>)

\* a click handler that prefers the text of a previous find to its selector
executeClickInheritedFirst(task, page, context) ==
    IF Has(context, "lastFoundText")
    THEN IF PageOk(page)
         THEN Ok(Spread(context, [clickedElement |-> "found element"]),
                 <<Line("auto-targeting", 0, context["lastFoundText"]),
                   Line("clicked", 0, "found element")>>)
         ELSE Err("page error",
                  <<Line("auto-targeting", 0, context["lastFoundText"]),
                    Line("auto-click failed", 0, "page error")>>)
    ELSE IF ~Falsy(task.config.clickSelector)
    THEN IF PageOk(page) THEN Ok(context, << >>) ELSE Err("page error", << >>)
    ELSE Err("No click target specified and no context from previous Find/Search",
             << >>)

executeClick(task, page, context) ==
    LET clickTarget == task.config.clickSelector IN
    IF Falsy(clickTarget) /\ ~Has(context, "lastFoundText")
                          /\ Has(context, "lastSearchQuery")
    THEN IF PageOk(page)
         THEN Ok(Spread(context, [clickedElement |-> "first link"]),
                 <<Line("auto-clicking first link", 0, ""),
                   Line("clicked", 0, "first link")>>)
         ELSE Err("page error", <<Line("auto-clicking first link", 0, "")>>)
    ELSE IF Falsy(clickTarget) /\ Has(context, "lastFoundText")
    THEN IF PageOk(page)
         THEN Ok(Spread(context, [clickedElement |-> "found element"]),
                 <<Line("auto-targeting", 0, context["lastFoundText"]),
                   Line("clicked", 0, "found element")>>)
         ELSE Err("page error",
                  <<Line("auto-targeting", 0, context["lastFoundText"]),
                    Line("auto-click failed", 0, "page error")>>)
    ELSE IF ~Falsy(clickTarget)
    THEN IF PageOk(page) THEN Ok(context, << >>) ELSE Err("page error", << >>)
    ELSE Err("No click target specified and no context from previous Find/Search",
             << >>)

\* enter, scroll and wait handlers that return a record of what they did
executeTaskReporting(task, page, context) ==
    CASE task.type = "search" ->
           IF Falsy(task.config.searchQuery)
           THEN Err("Search query is required", << >>)
           ELSE IF ~PageOk(page) THEN Err("page error", << >>)
           ELSE Ok([lastSearchQuery |-> task.config.searchQuery], << >>)
      [] task.type = "find" -> executeFind(task, page, context)
      [] task.type = "click" -> executeClick(task, page, context)
      [] task.type \in {"enter", "scroll"} ->
           IF ~PageOk(page) THEN Err("page error", << >>)
           ELSE Ok([clickedElement |-> task.type], << >>)
      [] OTHER -> Ok([clickedElement |-> task.type], << >>)

\* handlers that go on without the config field they require
executeTaskLenient(task, page, context) ==
    CASE task.type = "search" ->
           IF ~PageOk(page) THEN Err("page error", << >>)
           ELSE Ok([lastSearchQuery |-> task.config.searchQuery], << >>)
      [] task.type = "find" -> executeFind(task, page, context)
      [] task.type = "click" -> executeClick(task, page, context)
      [] task.type = "type" ->
           IF ~PageOk(page)
           THEN Err("page error", <<Line("typing", 0, task.config.typeText)>>)
           ELSE Ok(Spread(context, [typedText |-> task.config.typeText]),
                   <<Line("typing", 0, task.config.typeText),
                     Line("typed into", 0, "input")>>)
      [] OTHER -> Ok(context, << >>)

executeTask(task, page, context) ==
    CASE task.type = "search" ->
           IF Falsy(task.config.searchQuery)
           THEN Err("Search query is required", << >>)
           ELSE IF ~PageOk(page) THEN Err("page error", << >>)
           ELSE Ok([lastSearchQuery |-> task.config.searchQuery], << >>)
      [] task.type = "find" -> executeFind(task, page, context)
      [] task.type = "click" -> executeClick(task, page, context)
      [] task.type = "extract-dom" ->
           IF ~PageOk(page) THEN Err("page error", << >>)
           ELSE LET extractedData == IF page = "resolve" THEN "items"
                                      ELSE "no items"
                IN Ok(Spread(context, [extractedData |-> extractedData]),
                      <<Line("extracted", 0, extractedData)>>)
      [] task.type = "type" ->
           IF Falsy(task.config.typeText)
           THEN Err("Text to type is required", << >>)
           ELSE IF ~PageOk(page)
           THEN Err("page error", <<Line("typing", 0, task.config.typeText)>>)
           ELSE Ok(Spread(context, [typedText |-> task.config.typeText]),
                   <<Line("typing", 0, task.config.typeText),
                     Line("typed into", 0, "input")>>)
      [] task.type = "enter" ->
           IF ~PageOk(page)
           THEN Err("page error", <<Line("pressing enter", 0, "")>>)
           ELSE Ok(context, <<Line("pressing enter", 0, ""),
                              Line("enter pressed", 0, "")>>)
      [] task.type = "scroll" ->
           IF ~PageOk(page)
           THEN Err("page error", <<Line("scrolling", 0, "")>>)
           ELSE Ok(context, <<Line("scrolling", 0, "")>>)
      [] task.type = "wait" -> Ok(context, <<Line("waiting", 0, "")>>)
      [] task.type = "loop" ->
           Ok(context, <<Line("loop task handled at sequence level", 0, "")>>)
      [] OTHER -> Err("Unknown task type", << >>)

\* The calls executeTask makes on the page view, in order, up to its return
\* or throw.
pageOps(task, page, context) ==
    CASE task.type = "search" ->
           IF Falsy(task.config.searchQuery) THEN << >>
           ELSE IF ~PageOk(page) THEN <<"executeJavaScript">>
           ELSE <<"executeJavaScript", "loadURL">>
      [] task.type = "find" ->
           IF ~PageOk(page) \/ Falsy(textToFind(task, context))
           THEN <<"stopFindInPage", "executeJavaScript">>
           ELSE <<"stopFindInPage", "executeJavaScript",
                  "findInPage", "executeJavaScript">>
      [] task.type = "click" ->
           IF ~Falsy(task.config.clickSelector) THEN <<"executeJavaScript">>
           ELSE IF Has(context, "lastFoundText") \/ Has(context, "lastSearchQuery")
           THEN <<"stopFindInPage", "executeJavaScript">>
           ELSE << >>
      [] task.type = "extract-dom" -> <<"executeJavaScript">>
      [] task.type = "type" ->
           IF Falsy(task.config.typeText) THEN << >> ELSE <<"executeJavaScript">>
      [] task.type = "enter" -> <<"executeJavaScript">>
      [] task.type = "scroll" -> <<"executeJavaScript">>
      [] OTHER -> << >>

\* the calls on the page view made last: none yet, a handler's, or those of
\* a click in the sidebar
Issued(by, ops) == [by |-> by, ops |-> ops]

----
\* executeSequence: one activation per slot.  pc is the await (or loop head)
\* the activation stands at; tasks and isPaused are the values of the render
\* whose closure is running: the handler reads them, never the store.

IdleRun ==
    [pc |-> "idle", tasks |-> << >>, isPaused |-> FALSE, hasLoop |-> FALSE,
     loopCount |-> 1, loop |-> 0, i |-> 0, executionContext |-> EmptyContext,
     calls |-> << >>, taskDelays |-> 0, loopDelays |-> 0]

Returned == {"idle", "done", "failed"}

InProgress(r) == run[r].pc \notin Returned

\* taskDelays and loopDelays count the 500 ms and the 1000 ms delays the
\* activation has sat through.

\* the activation a click creates: the first slot that holds no running one
FreeSlot(r) == ~InProgress(r) /\ \A q \in Slots : q < r => InProgress(q)

\* lastTask.config.loopCount || 1
loopCountOf(lastTask) ==
    IF lastTask.config.loopCount = Unset \/ lastTask.config.loopCount = <<0>>
    THEN 1 ELSE lastTask.config.loopCount[1]

\* the slice taken whether or not the list ends with a loop task
tasksToExecuteAlwaysSliced(a) == SubSeq(a.tasks, 1, Len(a.tasks) - 1)

\* the loop task left in the list
tasksToExecuteUnsliced(a) == a.tasks

\* the slice not taken from a list that is nothing but a loop task
tasksToExecuteKeepingLoneLoop(a) ==
    IF a.hasLoop /\ Len(a.tasks) > 1
    THEN SubSeq(a.tasks, 1, Len(a.tasks) - 1) ELSE a.tasks

\* hasLoop ? tasks.slice(0, -1) : tasks
tasksToExecute(a) ==
    IF a.hasLoop THEN SubSeq(a.tasks, 1, Len(a.tasks) - 1) ELSE a.tasks

\* the button left enabled during a run
ExecuteDisabledIgnoringRun == Len(tasks) = 0

\* the Execute button's disabled attribute
ExecuteDisabled == Len(tasks) = 0 \/ executionStatus.isExecuting

\* what an activation works on: the store and its own locals
State(ts, es, a) == [tasks |-> ts, executionStatus |-> es, a |-> a]

\* the lines from the loop detection to the last log before the loops
startRun(ts, es) ==
    LET lastTask == ts[Len(ts)]
        hasLoop == lastTask.type = "loop"
        loopCount == IF hasLoop THEN loopCountOf(lastTask) ELSE 1
        started == setExecutionStatus(es,
                     [isExecuting |-> TRUE, isPaused |-> FALSE,
                      currentTaskIndex |-> 0, totalTasks |-> Len(ts),
                      totalLoops |-> IF hasLoop THEN <<loopCount>> ELSE Unset])
        logged == addLog(clearLogs(started), Line("start", 0, ""))
    IN State(ts,
             IF hasLoop THEN addLog(logged, Line("will loop", loopCount, ""))
             ELSE logged,
             [IdleRun EXCEPT !.pc = "loop", !.tasks = ts,
                             !.isPaused = es.isPaused,
                             !.hasLoop = hasLoop, !.loopCount = loopCount])

\* the context declared outside the outer loop
beginIterationKeepingContext(S) ==
    [S EXCEPT
       !.executionStatus =
           IF S.a.hasLoop /\ S.a.loop > 0
           THEN setExecutionStatus(addLog(@, Line("restart", S.a.loop + 1, "")),
                                   [currentLoop |-> <<S.a.loop + 1>>])
           ELSE @,
       !.a.pc = "task", !.a.i = 0]

\* the head of one iteration of the outer loop
beginIteration(S) ==
    [S EXCEPT
       !.executionStatus =
           IF S.a.hasLoop /\ S.a.loop > 0
           THEN setExecutionStatus(addLog(@, Line("restart", S.a.loop + 1, "")),
                                   [currentLoop |-> <<S.a.loop + 1>>])
           ELSE @,
       !.a.pc = "task", !.a.i = 0, !.a.executionContext = EmptyContext]

\* a completion update that leaves isPaused as it is
finishKeepingPause(S) ==
    [S EXCEPT
       !.executionStatus =
           setExecutionStatus(addLog(@, Line("success", 0, "")),
             [isExecuting |-> FALSE,
              currentTaskIndex |-> -1, currentLoop |-> Unset]),
       !.a.pc = "done"]

\* the lines after the outer loop
finish(S) ==
    [S EXCEPT
       !.executionStatus =
           setExecutionStatus(addLog(@, Line("success", 0, "")),
             [isExecuting |-> FALSE, isPaused |-> FALSE,
              currentTaskIndex |-> -1, currentLoop |-> Unset]),
       !.a.pc = "done"]

\* the task at the inner loop's index, looked up in the store's list of now
currentTaskFromStore(a) ==
    IF a.i + 1 \in DOMAIN tasks THEN tasks[a.i + 1] ELSE tasksToExecute(a)[a.i + 1]

\* the task at the inner loop's index
currentTask(a) == tasksToExecute(a)[a.i + 1]

\* the lines from the pause poll to the call of executeTask
dispatch(S) ==
    LET task == currentTask(S.a) IN
    [S EXCEPT
       !.tasks = updateTask(@, task.id, [status |-> "running"]),
       !.executionStatus =
           addLog(setExecutionStatus(@, [currentTaskIndex |-> S.a.i]),
                  Line("executing", S.a.i + 1, task.type)),
       !.a.pc = "handler",
       !.a.calls = Append(@, [id |-> task.id, i |-> S.a.i, loop |-> S.a.loop,
                              context |-> S.a.executionContext])]

\* a catch block that records the failure and goes on with the next task
settleAndGoOn(S, result) ==
    LET task == tasksToExecute(S.a)[S.a.i + 1] IN
    IF result.ok
    THEN [S EXCEPT
            !.tasks = updateTask(@, task.id,
                        [status |-> "completed", result |-> result.value]),
            !.executionStatus =
                addLog(addLogs(@, result.logs), Line("completed", S.a.i + 1, "")),
            !.a.executionContext = Spread(@, result.value),
            !.a.pc = "taskDelay"]
    ELSE [S EXCEPT
            !.tasks = updateTask(@, task.id,
                        [status |-> "failed", error |-> result.message]),
            !.executionStatus =
                addLog(addLogs(@, result.logs),
                       Line("failed", S.a.i + 1, result.message)),
            !.a.pc = "taskDelay"]

\* a try block that replaces the context with the handler's result
settleReplacingContext(S, result) ==
    LET task == tasksToExecute(S.a)[S.a.i + 1] IN
    IF result.ok
    THEN [S EXCEPT
            !.tasks = updateTask(@, task.id,
                        [status |-> "completed", result |-> result.value]),
            !.executionStatus =
                addLog(addLogs(@, result.logs), Line("completed", S.a.i + 1, "")),
            !.a.executionContext = result.value,
            !.a.pc = "taskDelay"]
    ELSE [S EXCEPT
            !.tasks = updateTask(@, task.id,
                        [status |-> "failed", error |-> result.message]),
            !.executionStatus =
                setExecutionStatus(
                  addLog(addLogs(@, result.logs),
                         Line("failed", S.a.i + 1, result.message)),
                  [isExecuting |-> FALSE, isPaused |-> FALSE]),
            !.a.pc = "failed"]

\* a try block that does not mark the task completed
settleLeavingRunning(S, result) ==
    LET task == tasksToExecute(S.a)[S.a.i + 1] IN
    IF result.ok
    THEN [S EXCEPT
            !.executionStatus =
                addLog(addLogs(@, result.logs), Line("completed", S.a.i + 1, "")),
            !.a.executionContext = Spread(@, result.value),
            !.a.pc = "taskDelay"]
    ELSE [S EXCEPT
            !.tasks = updateTask(@, task.id,
                        [status |-> "failed", error |-> result.message]),
            !.executionStatus =
                setExecutionStatus(
                  addLog(addLogs(@, result.logs),
                         Line("failed", S.a.i + 1, result.message)),
                  [isExecuting |-> FALSE, isPaused |-> FALSE]),
            !.a.pc = "failed"]

\* executeTask has settled: the rest of the try block, or the catch block
settle(S, result) ==
    LET task == currentTask(S.a) IN
    IF result.ok
    THEN [S EXCEPT
            !.tasks = updateTask(@, task.id,
                        [status |-> "completed", result |-> result.value]),
            !.executionStatus =
                addLog(IF task.type = "extract-dom"
                       THEN setExecutionStatus(addLogs(@, result.logs),
                              [extractedData |-> result.value["extractedData"]])
                       ELSE addLogs(@, result.logs),
                       Line("completed", S.a.i + 1, "")),
            !.a.executionContext = Spread(@, result.value),
            !.a.pc = "taskDelay"]
    ELSE [S EXCEPT
            !.tasks = updateTask(@, task.id,
                        [status |-> "failed", error |-> result.message]),
            !.executionStatus =
                setExecutionStatus(
                  addLog(addLogs(@, result.logs),
                         Line("failed", S.a.i + 1, result.message)),
                  [isExecuting |-> FALSE, isPaused |-> FALSE]),
            !.a.pc = "failed"]

\* executeTask returns or throws before its first timer or page call
Synchronous(task) ==
    \/ task.type = "loop"
    \/ task.type = "search" /\ Falsy(task.config.searchQuery)
    \/ task.type = "type" /\ Falsy(task.config.typeText)
    \/ task.type \notin {"search", "find", "click", "extract-dom", "type",
                         "enter", "scroll", "wait", "loop"}

\* an outer loop that waits 1000 ms after its last iteration as well
RECURSIVE resumeDelayingAfterLast(_)
resumeDelayingAfterLast(S) ==
    LET a == S.a IN
    CASE a.pc = "loop" ->
           IF a.loop < a.loopCount
           THEN resumeDelayingAfterLast(beginIteration(S)) ELSE finish(S)
      [] a.pc = "task" ->
           IF a.i < Len(tasksToExecute(a))
           THEN IF a.isPaused
                THEN [S EXCEPT !.a.pc = "pausePoll"]
                ELSE IF Synchronous(currentTask(a))
                THEN settle(dispatch(S),
                            executeTask(currentTask(a), "resolve",
                                        a.executionContext))
                ELSE dispatch(S)
           ELSE [S EXCEPT !.a.pc = "loopDelay"]
      [] OTHER -> S

\* the activation runs on to its next await of a timer or of the page view,
\* or to its return
RECURSIVE resume(_)
resume(S) ==
    LET a == S.a IN
    CASE a.pc = "loop" ->
           IF a.loop < a.loopCount THEN resume(beginIteration(S)) ELSE finish(S)
      [] a.pc = "task" ->
           IF a.i < Len(tasksToExecute(a))
           THEN IF a.isPaused
                THEN [S EXCEPT !.a.pc = "pausePoll"]
                ELSE IF Synchronous(currentTask(a))
                THEN settle(dispatch(S),
                            executeTask(currentTask(a), "resolve",
                                        a.executionContext))
                ELSE dispatch(S)
           ELSE IF a.loop < a.loopCount - 1
                THEN [S EXCEPT !.a.pc = "loopDelay"]
                ELSE resume([S EXCEPT !.a.pc = "loop", !.a.loop = @ + 1])
      [] OTHER -> S

\* The legacy sidebar (components/AISidebar.tsx): a list of action names, a
\* search query, and executeAll, which closes over both.

LegacyNames == {"Search", "Find", "Click", "Extract DOM"}

LegacyQueries == {"", "Gojo"}

LegacyIdleRun ==
    [pc |-> "idle", tasks |-> << >>, searchQuery |-> "", i |-> 0,
     console |-> << >>, alerts |-> << >>, opened |-> << >>]

LegacyInitial ==
    [searchQuery |-> "", tasks |-> << >>,
     run |-> LegacyIdleRun]

\* executeTask(task, index) of the legacy sidebar, in the activation a
legacyExecuteTask(a, task, index) ==
    LET logged == [a EXCEPT !.console = Append(@, [index |-> index,
                                                   task |-> task])]
    IN
    IF task = "Search"
    THEN IF a.searchQuery = ""
         THEN [logged EXCEPT
                 !.alerts = Append(@, "Please enter a search term first.")]
         ELSE [logged EXCEPT !.opened = Append(@, a.searchQuery)]
    ELSE IF task = "Find"
    THEN [logged EXCEPT
            !.alerts = Append(@, "Simulating: Find element on page...")]
    ELSE IF task = "Click"
    THEN [logged EXCEPT !.alerts = Append(@, "Simulating: Click element...")]
    ELSE IF task = "Extract DOM"
    THEN [logged EXCEPT
            !.alerts = Append(@, "Simulating: Extracting DOM content...")]
    ELSE logged

\* an executeAll that leaves its loop at a Search without a query
executeAllStopping(a) ==
    IF a.i < Len(a.tasks)
    THEN IF a.tasks[a.i + 1] = "Search" /\ a.searchQuery = ""
         THEN [legacyExecuteTask(a, a.tasks[a.i + 1], a.i) EXCEPT
                 !.pc = "stopped"]
         ELSE [legacyExecuteTask(a, a.tasks[a.i + 1], a.i) EXCEPT
                 !.pc = "delay"]
    ELSE [a EXCEPT !.pc = "done",
                   !.alerts = Append(@, "All tasks executed in sequence!")]

\* executeAll from the loop test to its next timer, or to its end
executeAll(a) ==
    IF a.i < Len(a.tasks)
    THEN [legacyExecuteTask(a, a.tasks[a.i + 1], a.i) EXCEPT !.pc = "delay"]
    ELSE [a EXCEPT !.pc = "done",
                   !.alerts = Append(@, "All tasks executed in sequence!")]

LegacyUnchanged ==
    UNCHANGED <<tasks, executionStatus, webview, alerts, run, pageView>>

\* a click on the legacy Execute button, disabled while the list is empty.
\* Each run of executeAll has its own closure and shares no state with another,
\* so one run is followed at a time.
LegacyExecuteClick ==
    /\ Len(legacy.tasks) # 0
    /\ legacy.run.pc \in {"idle", "done"}
    /\ legacy' = [legacy EXCEPT !.run =
                    executeAll([LegacyIdleRun EXCEPT
                                  !.tasks = legacy.tasks,
                                  !.searchQuery = legacy.searchQuery])]
    /\ LegacyUnchanged

\* the 1000 ms timer after a task fires
LegacyTimerFires ==
    /\ legacy.run.pc = "delay"
    /\ legacy' = [legacy EXCEPT !.run =
                    executeAll([legacy.run EXCEPT !.i = @ + 1])]
    /\ LegacyUnchanged

\* handleDrop: setTasks((prev) => [...prev, task])
LegacyDrop(task) ==
    /\ Len(legacy.tasks) < MaxLegacyTasks
    /\ legacy' = [legacy EXCEPT !.tasks = Append(@, task)]
    /\ LegacyUnchanged

\* the Remove button of a row
LegacyRemove(idx) ==
    /\ idx \in DOMAIN legacy.tasks
    /\ legacy' = [legacy EXCEPT !.tasks =
                    SubSeq(@, 1, idx - 1) \o SubSeq(@, idx + 1, Len(@))]
    /\ LegacyUnchanged

\* the search input changes
SetSearchQuery(q) ==
    /\ q # legacy.searchQuery
    /\ legacy' = [legacy EXCEPT !.searchQuery = q]
    /\ LegacyUnchanged

Here(r) == State(tasks, executionStatus, run[r])

Becomes(r, S) ==
    /\ tasks' = S.tasks
    /\ executionStatus' = S.executionStatus
    /\ run' = [run EXCEPT ![r] = S.a]
    /\ UNCHANGED <<webview, alerts, legacy>>

\* the status set up before the preconditions are looked at
AlertAfterStatusInit(message) ==
    /\ Len(alerts) < MaxAlerts
    /\ alerts' = Append(alerts, message)
    /\ executionStatus' = setExecutionStatus(executionStatus,
                            [isExecuting |-> TRUE, isPaused |-> FALSE,
                             currentTaskIndex |-> 0, totalTasks |-> Len(tasks)])
    /\ UNCHANGED <<tasks, webview, run, pageView, legacy>>

\* alert(message); return
Alert(message) ==
    /\ Len(alerts) < MaxAlerts
    /\ alerts' = Append(alerts, message)
    /\ UNCHANGED <<tasks, executionStatus, webview, run, pageView, legacy>>

executeSequence(r) ==
    IF Len(tasks) = 0 THEN Alert("No tasks to execute")
    ELSE IF ~webview THEN Alert("Webview not available")
    ELSE /\ Becomes(r, resume(startRun(tasks, executionStatus)))
         /\ UNCHANGED pageView

\* a click on the Execute button
ExecuteClick(r) ==
    /\ ~ExecuteDisabled
    /\ FreeSlot(r)
    /\ executeSequence(r)

\* the page view answers the handler in flight: executeTask settles
HandlerSettles(r) ==
    /\ run[r].pc = "handler"
    /\ \E page \in PageAnswers :
         /\ Becomes(r, resume(settle(Here(r),
                        executeTask(currentTask(run[r]), page,
                                    run[r].executionContext))))
         /\ pageView' = Issued("handler",
                                pageOps(currentTask(run[r]), page,
                                        run[r].executionContext))

\* an inner loop that does not advance its index
TimerFiresSameTask(r) ==
    LET S == Here(r) IN
    /\ run[r].pc \in {"pausePoll", "taskDelay", "loopDelay"}
    /\ Becomes(r, resume(
         CASE run[r].pc = "pausePoll" -> [S EXCEPT !.a.pc = "task"]
           [] run[r].pc = "taskDelay" ->
                [S EXCEPT !.a.pc = "task", !.a.taskDelays = @ + 1]
           [] run[r].pc = "loopDelay" ->
                [S EXCEPT !.a.pc = "loop", !.a.loop = @ + 1,
                          !.a.loopDelays = @ + 1]))
    /\ UNCHANGED pageView

\* the timer the activation awaits fires: the pause poll's 100 ms, the
\* 500 ms between two tasks, the 1000 ms between two iterations
TimerFires(r) ==
    LET S == Here(r) IN
    /\ run[r].pc \in {"pausePoll", "taskDelay", "loopDelay"}
    /\ Becomes(r, resume(
         CASE run[r].pc = "pausePoll" -> [S EXCEPT !.a.pc = "task"]
           [] run[r].pc = "taskDelay" ->
                [S EXCEPT !.a.pc = "task", !.a.i = @ + 1, !.a.taskDelays = @ + 1]
           [] run[r].pc = "loopDelay" ->
                [S EXCEPT !.a.pc = "loop", !.a.loop = @ + 1,
                          !.a.loopDelays = @ + 1]))
    /\ UNCHANGED pageView

\* a click on the Pause/Resume button, rendered while isExecuting
PauseClick ==
    /\ executionStatus.isExecuting
    /\ executionStatus' = setExecutionStatus(executionStatus,
                            [isPaused |-> ~executionStatus.isPaused])
    /\ UNCHANGED <<tasks, webview, alerts, run, pageView, legacy>>

\* the page view is mounted or unmounted: webviewRef.current changes
WebviewChange ==
    /\ webview' = ~webview
    /\ UNCHANGED <<tasks, executionStatus, alerts, run, pageView, legacy>>

\* a click on an item of the Extracted Data panel, rendered while the status
\* holds extracted items; the items with a url navigate the page view
ExtractedItemClick ==
    /\ executionStatus.extractedData = "items"
    /\ webview
    /\ Cardinality({n \in DOMAIN executionStatus.logs :
                      executionStatus.logs[n].kind = "navigated"}) < MaxNavigations
    /\ pageView' = Issued("panel", <<"loadURL">>)
    /\ executionStatus' = addLog(executionStatus, Line("navigated", 0, "item"))
    /\ UNCHANGED <<tasks, webview, alerts, run, legacy>>

\* The user edits the list, at any time.

\* the ids handleDrop hands out
EditIds == {1, 2}

\* an id no task of the store or of an activation has
FreshId ==
    LET used == {tasks[k].id : k \in DOMAIN tasks}
                \cup UNION {{run[r].tasks[k].id : k \in DOMAIN run[r].tasks} :
                             r \in Slots}
    IN CHOOSE id \in 1..(Cardinality(used) + 1) : id \notin used

\* an action of the palette is dropped on the list and its card filled in
Drop(type, config) ==
    /\ FreshId \in EditIds
    /\ Len(tasks) < Cardinality(EditIds)
    /\ tasks' = addTask(tasks, NewTask(FreshId, type, config))
    /\ UNCHANGED <<executionStatus, webview, alerts, run, pageView, legacy>>

\* the remove button of a task card
Remove(k) ==
    /\ k \in DOMAIN tasks
    /\ tasks' = removeTask(tasks, tasks[k].id)
    /\ UNCHANGED <<executionStatus, webview, alerts, run, pageView, legacy>>

\* a task card is dragged over another one
Move(dragIndex, hoverIndex) ==
    /\ dragIndex \in DOMAIN tasks
    /\ hoverIndex \in DOMAIN tasks
    /\ dragIndex # hoverIndex
    /\ tasks' = reorderTasks(tasks, dragIndex, hoverIndex)
    /\ UNCHANGED <<executionStatus, webview, alerts, run, pageView, legacy>>

\* a click on the Clear button
ClearClick ==
    /\ Len(tasks) > 0
    /\ tasks' = clearTasks(tasks)
    /\ UNCHANGED <<executionStatus, webview, alerts, run, pageView, legacy>>

\* the sequence the database holds under the name the user picks
SavedSequence ==
    <<NewTask(0, "click", [NoConfig EXCEPT !.clickSelector = "#go"])>>

\* handleLoadSequence, the database answering with success; one load is
\* followed between two clearLogs
LoadSequence ==
    /\ \A n \in DOMAIN executionStatus.logs :
         executionStatus.logs[n].kind # "loaded"
    /\ tasks' = loadSequence(tasks, SavedSequence)
    /\ executionStatus' = addLog(executionStatus, Line("loaded", 0, "sequence"))
    /\ UNCHANGED <<webview, alerts, run, pageView, legacy>>

----
\* The task lists drawn at Init.

LoopCounts == {Unset, <<-1>>, <<0>>, <<2>>}

TaskMenu ==
    {<<"find", [NoConfig EXCEPT !.text = "Contact"]>>,
     <<"click", NoConfig>>,
     <<"wait", NoConfig>>}
    \cup {<<"loop", [NoConfig EXCEPT !.loopCount = lc]>> : lc \in LoopCounts}

TaskLists(longest) ==
    UNION {[1..n -> TaskMenu] : n \in 0..longest}

InitWith(lists) ==
    /\ \E l \in lists :
         tasks = [k \in DOMAIN l |-> NewTask(k, l[k][1], l[k][2])]
    /\ executionStatus = InitialStatus
    /\ webview \in BOOLEAN
    /\ alerts = << >>
    /\ run = [r \in Slots |-> IdleRun]
    /\ pageView = Issued("none", << >>)
    /\ legacy = LegacyInitial

Init == InitWith(TaskLists(MaxTasks))

Next ==
    \/ \E r \in Slots : ExecuteClick(r)
    \/ \E r \in Slots : HandlerSettles(r)
    \/ \E r \in Slots : TimerFires(r)
    \/ PauseClick

Spec == Init /\ [][Next]_vars

\* executeSequence called as a function, whatever the Execute button shows,
\* while no activation is in progress, with the page view coming and going
DirectCall(r) ==
    /\ \A q \in Slots : ~InProgress(q)
    /\ FreeSlot(r)
    /\ executeSequence(r)

NextCall ==
    \/ \E r \in Slots : DirectCall(r)
    \/ \E r \in Slots : HandlerSettles(r)
    \/ \E r \in Slots : TimerFires(r)
    \/ PauseClick
    \/ WebviewChange

CallInit == InitWith(TaskLists(MaxCallTasks))

CallSpec == CallInit /\ [][NextCall]_vars

\* Replayed lists: up to MaxBody tasks and a trailing loop task of count > 1.
ReplayCounts == {2, 3}

ReplayedLists ==
    {l \o <<<<"loop", [NoConfig EXCEPT !.loopCount = <<n>>]>>>> :
       l \in UNION {[1..k -> {t \in TaskMenu : t[1] # "loop"}] : k \in 0..MaxBody},
       n \in ReplayCounts}

LoopInit == InitWith(ReplayedLists)

LoopSpec == LoopInit /\ [][Next]_vars

\* Lists that extract: the Extracted Data panel is there to be clicked.
PanelMenu == {<<"extract-dom", NoConfig>>, <<"wait", NoConfig>>}

PanelInit ==
    InitWith(UNION {[1..n -> PanelMenu] : n \in 0..MaxPanelTasks})

NextPanel ==
    \/ \E r \in Slots : ExecuteClick(r)
    \/ \E r \in Slots : HandlerSettles(r)
    \/ \E r \in Slots : TimerFires(r)
    \/ PauseClick
    \/ ExtractedItemClick

PanelSpec == PanelInit /\ [][NextPanel]_vars

\* Lists of the tasks that produce and consume the context, with and without
\* the config field each of them requires.
ChainMenu ==
    {<<"search", [NoConfig EXCEPT !.searchQuery = "cats"]>>,
     <<"search", NoConfig>>,
     <<"find", [NoConfig EXCEPT !.text = "Contact"]>>,
     <<"find", [NoConfig EXCEPT !.selector = "About"]>>,
     <<"find", NoConfig>>,
     <<"click", NoConfig>>,
     <<"type", [NoConfig EXCEPT !.typeText = "hello"]>>,
     <<"type", NoConfig>>}

\* a list drawn from the menu, as it is or after a search for "cats"
ChainLists ==
    LET drawn == UNION {[1..n -> ChainMenu] : n \in 0..MaxChainTasks}
    IN drawn \cup {<<<<"search", [NoConfig EXCEPT !.searchQuery = "cats"]>>>> \o l :
                     l \in drawn}

ChainInit == InitWith(ChainLists)

NextChain ==
    \/ \E r \in Slots : ExecuteClick(r)
    \/ \E r \in Slots : HandlerSettles(r)
    \/ \E r \in Slots : TimerFires(r)

ChainSpec == ChainInit /\ [][NextChain]_vars

\* Lists of the tasks that hand the context on as they got it, after a
\* search or a find that has put something into it.
FrameMenu ==
    {<<"find", [NoConfig EXCEPT !.text = "Contact"]>>,
     <<"click", [NoConfig EXCEPT !.clickSelector = "#go"]>>,
     <<"enter", NoConfig>>,
     <<"scroll", NoConfig>>,
     <<"wait", NoConfig>>}

FrameLists ==
    LET drawn == UNION {[1..n -> FrameMenu] : n \in 0..MaxFrameTasks}
    IN drawn \cup {<<<<"search", [NoConfig EXCEPT !.searchQuery = "cats"]>>>> \o l :
                     l \in drawn}

FrameInit == InitWith(FrameLists)

FrameSpec == FrameInit /\ [][NextChain]_vars

\* The list is empty at first and the user builds and edits it, before,
\* during and between the runs.
EditMenu ==
    {<<"click", [NoConfig EXCEPT !.clickSelector = "#go"]>>,
     <<"loop", [NoConfig EXCEPT !.loopCount = <<2>>]>>}

EditInit == InitWith({<< >>}) /\ webview

NextEdit ==
    \/ \E r \in Slots : ExecuteClick(r)
    \/ \E r \in Slots : HandlerSettles(r)
    \/ \E r \in Slots : TimerFires(r)
    \/ \E t \in EditMenu : Drop(t[1], t[2])
    \/ \E k \in DOMAIN tasks : Remove(k)
    \/ \E i, j \in DOMAIN tasks : Move(i, j)
    \/ ClearClick
    \/ LoadSequence

EditSpec == EditInit /\ [][NextEdit]_vars

----
\* What the claims speak of.

\* the activation's task list ends with a loop task
EndsWithLoop(a) == Len(a.tasks) > 0 /\ a.tasks[Len(a.tasks)].type = "loop"

\* the count configured on the trailing loop task, 0 when it is unset
ConfiguredCount(a) ==
    LET lc == a.tasks[Len(a.tasks)].config.loopCount
    IN IF lc = Unset THEN 0 ELSE lc[1]

Started(a) == a.pc # "idle"

\* the status the store holds for the task with this id
StatusOf(id) == LET k == CHOOSE k \in DOMAIN tasks : tasks[k].id = id
                IN tasks[k].status

----
\* C1: a run of a non-empty list whose last task is no loop task dispatches
\* the tasks in list order, each at most once, and when it ends without a
\* failure it has dispatched every task exactly once.
C1_EachTaskOnceInOrder ==
    \A r \in Slots :
      LET a == run[r] IN
      (Started(a) /\ ~EndsWithLoop(a)) =>
        /\ Len(a.calls) <= Len(a.tasks)
        /\ \A k \in 1..Len(a.calls) : a.calls[k].id = a.tasks[k].id
        /\ a.pc = "done" => Len(a.calls) = Len(a.tasks)

C1_Witness ==
    \E r \in Slots :
      /\ run[r].pc = "done"
      /\ ~EndsWithLoop(run[r])
      /\ Len(run[r].tasks) = 3
      /\ Len(run[r].calls) = 3

\* C2: a run of a list whose last task is a loop task with count N > 1
\* dispatches the preceding tasks pass after pass in list order, never the
\* trailing loop task, and when it ends without a failure every preceding
\* task has been dispatched exactly N times.
C2_LoopReplaysNTimes ==
    \A r \in Slots :
      LET a == run[r]
          n == Len(a.tasks) - 1
          N == ConfiguredCount(a)
      IN
      (Started(a) /\ EndsWithLoop(a) /\ N > 1) =>
        /\ Len(a.calls) <= N * n
        /\ \A k \in 1..Len(a.calls) :
             /\ n > 0
             /\ a.calls[k].id = a.tasks[((k - 1) % n) + 1].id
             /\ a.calls[k].id # a.tasks[Len(a.tasks)].id
        /\ a.pc = "done" =>
             /\ Len(a.calls) = N * n
             /\ \A j \in 1..n :
                  Cardinality({k \in 1..Len(a.calls) :
                                 a.calls[k].id = a.tasks[j].id}) = N

C2_Witness ==
    \E r \in Slots :
      /\ run[r].pc = "done"
      /\ EndsWithLoop(run[r])
      /\ ConfiguredCount(run[r]) = 3
      /\ Len(run[r].tasks) = 3
      /\ Len(run[r].calls) = 6

\* C3 (as claimed): when a handler has failed at index i, the tasks before i
\* are completed, task i is failed and the tasks after i are pending, in
\* every loop iteration and in every run.
C3_FailureLeavesLaterPending ==
    \A r \in Slots :
      LET a == run[r] IN
      a.pc = "failed" =>
        \A k \in 1..Len(a.tasks) :
          StatusOf(a.tasks[k].id) =
            IF k - 1 < a.i THEN "completed"
            ELSE IF k - 1 = a.i THEN "failed" ELSE "pending"

\* C4 (as claimed): no task is dispatched in a step taken while isPaused is
\* true.
C4_NoTaskStartsWhilePaused ==
    [][\A r \in Slots :
         Len(run'[r].calls) > Len(run[r].calls) => ~executionStatus.isPaused]_vars

\* C5: at most one activation of executeSequence is in progress, and
\* isExecuting is true while one is.
C5_AtMostOneRun ==
    /\ Cardinality({r \in Slots : InProgress(r)}) <= 1
    /\ \A r \in Slots : InProgress(r) => executionStatus.isExecuting

C5_Witness ==
    \E r \in Slots :
      /\ run[r].pc = "handler"
      /\ Len(run[r].calls) >= 2
      /\ executionStatus.isExecuting
      /\ Len(tasks) > 0

\* the messages executeTask can fail with for this call
ErrorsOf(task, context) ==
    {executeTask(task, page, context).message :
       page \in {p \in PageAnswers : ~executeTask(task, p, context).ok}}

\* C6: once a failure line is in the log it is the log's last line, the run
\* has returned with isExecuting false, its last dispatch is the failing
\* task's only dispatch in that iteration, the task holds the handler's
\* message, and the log holds no success marker.
C6_FailureAbortsRun ==
    LET logs == executionStatus.logs IN
    \A n \in 1..Len(logs) :
      logs[n].kind = "failed" =>
        /\ n = Len(logs)
        /\ ~executionStatus.isExecuting
        /\ \A m \in 1..Len(logs) : logs[m].kind # "success"
        /\ \E r \in Slots :
             LET a == run[r]
                 last == a.calls[Len(a.calls)]
                 task == CHOOSE t \in {tasks[k] : k \in DOMAIN tasks} :
                           t.id = last.id
             IN /\ a.pc = "failed"
                /\ Len(a.calls) > 0
                /\ last.i = a.i /\ last.loop = a.loop
                /\ logs[n].n = a.i + 1
                /\ Cardinality({k \in 1..Len(a.calls) :
                     a.calls[k].i = a.i /\ a.calls[k].loop = a.loop}) = 1
                /\ task.status = "failed"
                /\ "error" \in DOMAIN task
                /\ task.error = logs[n].text
                /\ task.error \in
                     ErrorsOf([id |-> task.id, type |-> task.type,
                               config |-> task.config], last.context)

C6_Witness ==
    \E r \in Slots :
      /\ run[r].pc = "failed"
      /\ run[r].loop = 0
      /\ run[r].i = 0
      /\ run[r].loopCount = 2
      /\ Len(run[r].tasks) = 3
      /\ executionStatus.logs[Len(executionStatus.logs)].kind = "failed"

\* the task of the activation's list with this id, as handleDrop and the
\* task card made it
TaskOf(a, id) ==
    LET t == CHOOSE t \in {a.tasks[k] : k \in DOMAIN a.tasks} : t.id = id
    IN [id |-> t.id, type |-> t.type, config |-> t.config]

\* C7: the first task of every iteration is handed the empty context, and
\* every later task the context of the task before it in the same iteration
\* with that task's result spread over it: nothing of an earlier iteration.
C7_ContextEmptyAtIterationStart ==
    \A r \in Slots :
      LET calls == run[r].calls IN
      \A k \in 1..Len(calls) :
        IF calls[k].i = 0
        THEN calls[k].context = EmptyContext
        ELSE /\ k > 1
             /\ calls[k - 1].loop = calls[k].loop
             /\ calls[k - 1].i = calls[k].i - 1
             /\ calls[k].context =
                  Spread(calls[k - 1].context,
                         executeTask(TaskOf(run[r], calls[k - 1].id), "resolve",
                                     calls[k - 1].context).value)

C7_Witness ==
    \E r \in Slots :
      \E j, k \in 1..Len(run[r].calls) :
        /\ run[r].calls[j].loop = 0
        /\ "lastFoundText" \in DOMAIN run[r].calls[j].context
        /\ run[r].calls[k].loop = 1
        /\ run[r].calls[k].i = 0

\* C8: a call of executeSequence that ends in an alert (the task list is
\* empty, or the page view is missing) shows the message of its case and
\* changes neither the task list, nor the execution status and its log, nor
\* any activation.
C8_PreconditionFailureChangesNothing ==
    [][Len(alerts') > Len(alerts) =>
         /\ Len(tasks) = 0 \/ ~webview
         /\ alerts'[Len(alerts')] =
              IF Len(tasks) = 0 THEN "No tasks to execute"
              ELSE "Webview not available"
         /\ UNCHANGED <<tasks, executionStatus, run>>]_vars

C8_Witness ==
    /\ Len(alerts) > 0
    /\ alerts[Len(alerts)] = "Webview not available"
    /\ \E k \in DOMAIN tasks : tasks[k].status = "completed"
    /\ executionStatus.logs # << >>

C8_WitnessEmpty ==
    /\ Len(tasks) = 0
    /\ alerts = <<"No tasks to execute">>

\* C9 (as claimed): a run whose trailing loop task has an unset, zero or
\* negative count, and which ends without a failure, has dispatched the
\* preceding tasks exactly once.
C9_NonPositiveCountRunsOnce ==
    \A r \in Slots :
      LET a == run[r] IN
      (a.pc = "done" /\ EndsWithLoop(a) /\ ConfiguredCount(a) <= 0) =>
        /\ Len(a.calls) = Len(a.tasks) - 1
        /\ \A k \in 1..Len(a.calls) : a.calls[k].id = a.tasks[k].id

\* the activation has dispatched the task with this id in this iteration
DispatchedInIteration(a, id, loop) ==
    \E k \in 1..Len(a.calls) : a.calls[k].id = id /\ a.calls[k].loop = loop

\* the activation has dispatched the task with this id
DispatchedInRun(a, id) ==
    \E k \in 1..Len(a.calls) : a.calls[k].id = id

\* C10 (as claimed): a task that the run in progress has dispatched and that
\* has reached completed or failed keeps that status for the rest of the run.
C10_TerminalStatusKeptInRun ==
    [][\A r \in Slots : \A k \in DOMAIN tasks :
         (/\ InProgress(r)
          /\ DispatchedInRun(run[r], tasks[k].id)
          /\ tasks[k].status \in {"completed", "failed"})
         => tasks'[k].status = tasks[k].status]_vars

\* C10 (amended): a status changes only for the task an activation has just
\* dispatched, to running while its handler is in flight, to completed or
\* failed once the handler has settled; and a task that has reached completed
\* or failed in the current iteration of the run in progress keeps that
\* status until the iteration ends.
C10_StatusStepsWithinIteration ==
    [][\A k \in DOMAIN tasks :
         /\ tasks'[k].status # tasks[k].status =>
              \E r \in Slots :
                LET a == run'[r] IN
                /\ Len(a.calls) > 0
                /\ a.calls[Len(a.calls)].id = tasks[k].id
                /\ \/ tasks'[k].status = "running" /\ a.pc = "handler"
                   \/ tasks'[k].status = "completed" /\ a.pc = "taskDelay"
                   \/ tasks'[k].status = "failed" /\ a.pc = "failed"
                /\ run[r].pc = "handler" => tasks[k].status = "running"
         /\ \A r \in Slots :
              (/\ InProgress(r)
               /\ run'[r].loop = run[r].loop
               /\ DispatchedInIteration(run[r], tasks[k].id, run[r].loop)
               /\ tasks[k].status \in {"completed", "failed"})
              => tasks'[k].status = tasks[k].status]_vars

C10_Witness ==
    \E r \in Slots :
      LET a == run[r] IN
      /\ a.pc = "handler"
      /\ a.loop = 1
      /\ a.i = 1
      /\ StatusOf(a.tasks[1].id) = "completed"
      /\ StatusOf(a.tasks[2].id) = "running"
      /\ DispatchedInIteration(a, a.tasks[2].id, 0)

\* C11 (as claimed): when the latest run has completed without a failure and
\* no run is in progress, the success marker is the last log line,
\* isExecuting is false, currentTaskIndex is -1, and currentLoop and
\* totalLoops are both cleared.
C11_CompletionResetsStatus ==
    \A r \in Slots :
      (run[r].pc = "done" /\ \A q \in Slots : ~InProgress(q)) =>
        LET logs == executionStatus.logs IN
        /\ Len(logs) > 0
        /\ logs[Len(logs)].kind = "success"
        /\ ~executionStatus.isExecuting
        /\ executionStatus.currentTaskIndex = -1
        /\ executionStatus.currentLoop = Unset
        /\ executionStatus.totalLoops = Unset

\* C12 (as claimed): no activation dispatches a task of type loop, whatever
\* the task's position in the list.
C12_LoopTaskNeverDispatched ==
    \A r \in Slots :
      \A k \in 1..Len(run[r].calls) :
        TaskOf(run[r], run[r].calls[k].id).type # "loop"

\* C13: at most one task has status running; a task is running only while
\* an activation awaits its handler, and it is that activation's latest
\* dispatch; while a handler is awaited, every other task the activation has
\* dispatched is completed.
C13_OneHandlerAtATime ==
    /\ Cardinality({k \in DOMAIN tasks : tasks[k].status = "running"}) <= 1
    /\ \A k \in DOMAIN tasks :
         tasks[k].status = "running" =>
           \E r \in Slots :
             /\ run[r].pc = "handler"
             /\ run[r].calls[Len(run[r].calls)].id = tasks[k].id
    /\ \A r \in Slots :
         run[r].pc = "handler" =>
           LET calls == run[r].calls
               last == calls[Len(calls)]
           IN /\ StatusOf(last.id) = "running"
              /\ \A j \in 1..(Len(calls) - 1) :
                   calls[j].id # last.id => StatusOf(calls[j].id) = "completed"

C13_Witness ==
    \E r \in Slots :
      LET a == run[r] IN
      /\ a.pc = "handler"
      /\ a.i = 2
      /\ Len(a.calls) = 3
      /\ Cardinality({k \in DOMAIN tasks : tasks[k].status = "completed"}) = 2
      /\ StatusOf(a.tasks[3].id) = "running"

\* C14 (as claimed): a step taken while isExecuting is true that makes calls
\* on the page view is the settling of the handler an activation awaits, and
\* the calls are that handler's.
C14_OnlyHandlerUsesPageViewInRun ==
    [][(executionStatus.isExecuting /\ pageView' # pageView) =>
         /\ pageView'.by = "handler"
         /\ \E r \in Slots : run[r].pc = "handler" /\ run'[r] # run[r]]_vars

\* the activation's latest dispatch
LastCall(a) == a.calls[Len(a.calls)]

\* the task of the store with this id
Stored(id) == CHOOSE t \in {tasks[k] : k \in DOMAIN tasks} : t.id = id

\* the activation's latest dispatch has settled and nothing has followed it
JustSettled(a) == a.pc \in {"taskDelay", "failed"} /\ Len(a.calls) > 0

\* the last n lines of the log
LastLines(n) ==
    LET logs == executionStatus.logs
    IN IF Len(logs) < n THEN << >> ELSE SubSeq(logs, Len(logs) - n + 1, Len(logs))

\* C15: when a handler has returned, the activation's context is the context
\* the handler was called with, with every key of the returned value set to
\* the returned value's and every other key as it was, and the task is
\* completed with the returned value as its result.
C15_SuccessMergesResult ==
    \A r \in Slots :
      LET a == run[r] IN
      (a.pc = "taskDelay" /\ Len(a.calls) > 0) =>
        LET call == LastCall(a)
            stored == Stored(call.id)
        IN \E page \in PageAnswers :
             LET outcome == executeTask(TaskOf(a, call.id), page, call.context) IN
             /\ outcome.ok
             /\ stored.status = "completed"
             /\ "result" \in DOMAIN stored
             /\ stored.result = outcome.value
             /\ DOMAIN a.executionContext =
                  (DOMAIN call.context) \cup (DOMAIN outcome.value)
             /\ \A key \in DOMAIN a.executionContext :
                  a.executionContext[key] =
                    IF key \in DOMAIN outcome.value THEN outcome.value[key]
                    ELSE call.context[key]

C15_Witness ==
    \E r \in Slots :
      LET a == run[r] IN
      /\ a.pc = "taskDelay"
      /\ a.i = 1
      /\ DOMAIN a.executionContext = {"lastSearchQuery", "lastFoundText"}
      /\ Stored(a.tasks[2].id).status = "completed"
      /\ DOMAIN Stored(a.tasks[2].id).result = {"lastFoundText"}

\* a click task without clickSelector
BareClick(task) == task.type = "click" /\ Falsy(task.config.clickSelector)

\* C16: when the handler of a click task without clickSelector, called with a
\* context that holds lastSearchQuery and no lastFoundText, has settled, it
\* has announced the click on the first link and called the page view; when
\* it has returned, the context and the task's result hold clickedElement
\* set to what the page view answered for the first link; when it has
\* thrown, it is the page view's error.
C16_ClickAfterSearchTakesFirstLink ==
    \A r \in Slots :
      LET a == run[r] IN
      (/\ JustSettled(a)
       /\ BareClick(TaskOf(a, LastCall(a).id))
       /\ Has(LastCall(a).context, "lastSearchQuery")
       /\ ~Has(LastCall(a).context, "lastFoundText")) =>
        /\ pageView = Issued("handler", <<"stopFindInPage", "executeJavaScript">>)
        /\ IF a.pc = "taskDelay"
           THEN /\ LastLines(3) = <<Line("auto-clicking first link", 0, ""),
                                    Line("clicked", 0, "first link"),
                                    Line("completed", a.i + 1, "")>>
                /\ "clickedElement" \in DOMAIN a.executionContext
                /\ a.executionContext["clickedElement"] = "first link"
                /\ Stored(LastCall(a).id).result["clickedElement"] = "first link"
                /\ a.executionContext["lastSearchQuery"] =
                     LastCall(a).context["lastSearchQuery"]
           ELSE /\ LastLines(2) = <<Line("auto-clicking first link", 0, ""),
                                    Line("failed", a.i + 1, "page error")>>
                /\ Stored(LastCall(a).id).error = "page error"

C16_Witness ==
    \E r \in Slots :
      LET a == run[r] IN
      /\ a.pc = "taskDelay"
      /\ Len(a.tasks) = 2
      /\ a.i = 1
      /\ a.tasks[1].type = "search"
      /\ BareClick(a.tasks[2])
      /\ DOMAIN a.executionContext = {"lastSearchQuery", "clickedElement"}
      /\ a.executionContext["lastSearchQuery"] = "cats"

\* C17: when the handler of a click task without clickSelector, called with a
\* context that holds lastFoundText, has settled, it has announced the click
\* on the element that holds that text, whether or not the context holds
\* lastSearchQuery, and never the click on the first link; when it has
\* returned, clickedElement is what the page view answered for that element.
C17_ClickAfterFindTargetsFoundText ==
    \A r \in Slots :
      LET a == run[r] IN
      (/\ JustSettled(a)
       /\ BareClick(TaskOf(a, LastCall(a).id))
       /\ Has(LastCall(a).context, "lastFoundText")) =>
        LET found == LastCall(a).context["lastFoundText"] IN
        /\ pageView = Issued("handler", <<"stopFindInPage", "executeJavaScript">>)
        /\ IF a.pc = "taskDelay"
           THEN /\ LastLines(3) = <<Line("auto-targeting", 0, found),
                                    Line("clicked", 0, "found element"),
                                    Line("completed", a.i + 1, "")>>
                /\ a.executionContext["clickedElement"] = "found element"
                /\ a.executionContext["lastFoundText"] = found
           ELSE /\ LastLines(3) = <<Line("auto-targeting", 0, found),
                                    Line("auto-click failed", 0, "page error"),
                                    Line("failed", a.i + 1, "page error")>>

C17_Witness ==
    \E r \in Slots :
      LET a == run[r] IN
      /\ a.pc = "taskDelay"
      /\ a.i = 2
      /\ BareClick(a.tasks[3])
      /\ DOMAIN a.executionContext =
           {"lastSearchQuery", "lastFoundText", "clickedElement"}
      /\ a.executionContext["clickedElement"] = "found element"

\* C18: once the handler of a click task without clickSelector, called with
\* a context that holds neither lastFoundText nor lastSearchQuery, is no
\* longer awaited, it has thrown the no-target error without a call on the
\* page view: the task is failed with that message, the failure is the last
\* log line, and the run has returned at that task with isExecuting false.
C18_ClickWithoutTargetFails ==
    \A r \in Slots :
      LET a == run[r] IN
      (/\ Len(a.calls) > 0
       /\ a.pc # "handler"
       /\ BareClick(TaskOf(a, LastCall(a).id))
       /\ ~Has(LastCall(a).context, "lastFoundText")
       /\ ~Has(LastCall(a).context, "lastSearchQuery")) =>
        LET message ==
              "No click target specified and no context from previous Find/Search"
        IN /\ a.pc = "failed"
           /\ a.i = LastCall(a).i
           /\ pageView = Issued("handler", << >>)
           /\ Stored(LastCall(a).id).status = "failed"
           /\ Stored(LastCall(a).id).error = message
           /\ LastLines(1) = <<Line("failed", a.i + 1, message)>>
           /\ ~executionStatus.isExecuting

C18_Witness ==
    \E r \in Slots :
      /\ run[r].pc = "failed"
      /\ Len(run[r].tasks) = 1
      /\ BareClick(run[r].tasks[1])
      /\ run[r].i = 0
      /\ tasks[1].status = "failed"

\* the page view has been asked to find a text by the latest caller
CalledFindInPage == \E n \in DOMAIN pageView.ops : pageView.ops[n] = "findInPage"

\* C19 (as claimed): when the handler of a find task has settled, then if the
\* config has no text and the context no lastFoundText it has thrown and
\* findInPage has not been called, and otherwise it has thrown only the page
\* view's error or has returned with lastFoundText set to the configured
\* text, or without one to the inherited lastFoundText.
C19_FindNeedsText ==
    \A r \in Slots :
      LET a == run[r] IN
      (JustSettled(a) /\ TaskOf(a, LastCall(a).id).type = "find") =>
        LET call == LastCall(a)
            text == TaskOf(a, call.id).config.text
        IN IF Falsy(text) /\ ~Has(call.context, "lastFoundText")
           THEN a.pc = "failed" /\ ~CalledFindInPage
           ELSE IF a.pc = "failed"
           THEN Stored(call.id).error = "page error"
           ELSE a.executionContext["lastFoundText"] =
                  IF ~Falsy(text) THEN text ELSE call.context["lastFoundText"]

\* C19 (amended): when the handler of a find task has settled, then if the
\* config has neither text nor selector and the context no lastFoundText it
\* has thrown "Text to find is required" after clearing the old highlights
\* and without calling findInPage, and otherwise it has thrown the page
\* view's error before findInPage or has called findInPage and returned with
\* lastFoundText set to the text searched for: the configured text, without
\* one the configured selector, without either the inherited lastFoundText.
C19_FindNeedsTextOrSelector ==
    \A r \in Slots :
      LET a == run[r] IN
      (JustSettled(a) /\ TaskOf(a, LastCall(a).id).type = "find") =>
        LET call == LastCall(a)
            config == TaskOf(a, call.id).config
            searched == IF ~Falsy(config.text) THEN config.text
                        ELSE IF ~Falsy(config.selector) THEN config.selector
                        ELSE IF Has(call.context, "lastFoundText")
                        THEN call.context["lastFoundText"]
                        ELSE Undefined
        IN /\ pageView.by = "handler"
           /\ IF searched = Undefined
              THEN /\ a.pc = "failed"
                   /\ Stored(call.id).error \in
                        {"Text to find is required", "page error"}
                   /\ pageView.ops = <<"stopFindInPage", "executeJavaScript">>
              ELSE IF a.pc = "failed"
              THEN /\ Stored(call.id).error = "page error"
                   /\ ~CalledFindInPage
              ELSE /\ CalledFindInPage
                   /\ a.executionContext["lastFoundText"] = searched
                   /\ Stored(call.id).result = [lastFoundText |-> searched]

C19_Witness ==
    \E r \in Slots :
      LET a == run[r] IN
      /\ a.pc = "taskDelay"
      /\ a.i = 1
      /\ a.tasks[2].type = "find"
      /\ a.tasks[2].config.selector = "About"
      /\ LastCall(a).context = [lastFoundText |-> "Contact"]
      /\ a.executionContext = [lastFoundText |-> "About"]

C19_WitnessNoText ==
    \E r \in Slots :
      LET a == run[r] IN
      /\ a.pc = "failed"
      /\ a.i = 1
      /\ a.tasks[1].type = "search"
      /\ a.tasks[2] = NewTask(2, "find", NoConfig)
      /\ Stored(2).error = "Text to find is required"

\* the task lacks the config field its handler requires
MissingConfig(task) ==
    \/ task.type = "search" /\ Falsy(task.config.searchQuery)
    \/ task.type = "type" /\ Falsy(task.config.typeText)

\* C20: the step that dispatches a search task without searchQuery or a type
\* task without typeText makes no call on the page view and ends the run as
\* a handler's failure does: the task is failed with the handler's message,
\* the failure is the last log line, isExecuting is false and the activation
\* has returned at that task.
C20_MissingConfigFailsBeforePageView ==
    [][\A r \in Slots :
            (/\ run'[r].calls # run[r].calls
             /\ Len(run'[r].calls) > 0
             /\ MissingConfig(TaskOf(run'[r], LastCall(run'[r]).id))) =>
              LET call == LastCall(run'[r])
                  task == TaskOf(run'[r], call.id)
                  message == IF task.type = "search" THEN "Search query is required"
                             ELSE "Text to type is required"
                  stored == CHOOSE t \in {tasks'[k] : k \in DOMAIN tasks'} :
                              t.id = call.id
                  logs == executionStatus'.logs
              IN /\ pageView' = pageView
                 /\ run'[r].pc = "failed"
                 /\ run'[r].i = call.i
                 /\ stored.status = "failed"
                 /\ stored.error = message
                 /\ logs[Len(logs)] = Line("failed", call.i + 1, message)
                 /\ ~executionStatus'.isExecuting]_vars

C20_Witness ==
    \E r \in Slots :
      LET a == run[r] IN
      /\ a.pc = "failed"
      /\ a.i = 1
      /\ a.tasks[2].type = "type"
      /\ MissingConfig(a.tasks[2])
      /\ Stored(1).status = "completed"
      /\ Stored(2).error = "Text to type is required"

\* C21: when the handler of an enter, scroll or wait task has returned, the
\* activation's context is the context the handler was called with, key for
\* key, and that context is the task's result.
C21_PassiveTasksKeepContext ==
    \A r \in Slots :
      LET a == run[r] IN
      (/\ a.pc = "taskDelay"
       /\ Len(a.calls) > 0
       /\ TaskOf(a, LastCall(a).id).type \in {"enter", "scroll", "wait"}) =>
        /\ a.executionContext = LastCall(a).context
        /\ Stored(LastCall(a).id).status = "completed"
        /\ Stored(LastCall(a).id).result = LastCall(a).context

C21_Witness ==
    \E r \in Slots :
      LET a == run[r] IN
      /\ a.pc = "taskDelay"
      /\ a.i = 2
      /\ a.tasks[2].type = "enter"
      /\ a.tasks[3].type = "scroll"
      /\ a.executionContext = [lastSearchQuery |-> "cats"]
      /\ Stored(a.tasks[3].id).status = "completed"

\* C22 (as claimed): every step leaves the lines the log holds in place and in
\* order, and only appends to them.
C22_LogAppendOnly ==
    [][/\ Len(executionStatus'.logs) >= Len(executionStatus.logs)
       /\ SubSeq(executionStatus'.logs, 1, Len(executionStatus.logs)) =
            executionStatus.logs]_vars

\* the tasks of the activation whose handler has returned
Successes(a) ==
    Len(a.calls) - (IF a.pc \in {"handler", "failed"} THEN 1 ELSE 0)

\* the iterations of the outer loop the activation has been through
FinishedIterations(a) == IF a.pc = "loopDelay" THEN a.loop + 1 ELSE a.loop

\* the delays the activation has begun, those it still sits in included
BegunTaskDelays(a) == a.taskDelays + (IF a.pc = "taskDelay" THEN 1 ELSE 0)
BegunLoopDelays(a) == a.loopDelays + (IF a.pc = "loopDelay" THEN 1 ELSE 0)

\* C23: an activation of N >= 1 iterations has begun one 500 ms delay for
\* every task whose handler has returned and none for a task that has
\* failed, and one 1000 ms delay for every iteration it has been through
\* except the N-th; when it ends without a failure it has sat through
\* exactly N - 1 of the latter and one of the former for every dispatch.
C23_DelaysBetweenTasksAndIterations ==
    \A r \in Slots :
      LET a == run[r]
          N == a.loopCount
      IN
      (Started(a) /\ N >= 1) =>
        /\ BegunTaskDelays(a) = Successes(a)
        /\ BegunLoopDelays(a) =
             IF FinishedIterations(a) < N THEN FinishedIterations(a) ELSE N - 1
        /\ a.pc = "done" =>
             /\ a.loopDelays = N - 1
             /\ a.taskDelays = Len(a.calls)
        /\ a.pc = "failed" => a.taskDelays = Len(a.calls) - 1

C23_Witness ==
    \E r \in Slots :
      LET a == run[r] IN
      /\ a.pc = "done"
      /\ a.loopCount = 3
      /\ a.loopDelays = 2
      /\ a.taskDelays = 6

C23_WitnessFailed ==
    \E r \in Slots :
      LET a == run[r] IN
      /\ a.pc = "failed"
      /\ a.loopCount = 3
      /\ a.loop = 2
      /\ a.loopDelays = 2
      /\ a.taskDelays = 4
      /\ Len(a.calls) = 5

\* a task list without what a run writes into it
Dropped(ts) == [k \in DOMAIN ts |->
                  [id |-> ts[k].id, type |-> ts[k].type, config |-> ts[k].config]]

\* the tasks an activation walks through: its list without a trailing loop
Body(a) == IF EndsWithLoop(a) THEN SubSeq(a.tasks, 1, Len(a.tasks) - 1)
           ELSE a.tasks

\* C24: an activation takes its task list from the store when it starts and
\* keeps it while it is in progress, whatever is dropped on, removed from,
\* moved in, cleared from or loaded into the store meanwhile; and its k-th
\* dispatch is the task at the k-th place of the walk through that list,
\* iteration after iteration.
C24_RunKeepsItsTaskList ==
    [][\A r \in Slots :
         /\ InProgress(r) => run'[r].tasks = run[r].tasks
         /\ run'[r].tasks # run[r].tasks =>
              Dropped(run'[r].tasks) = Dropped(tasks)
         /\ \A k \in 1..Len(run'[r].calls) :
              LET body == Body(run'[r])
                  call == run'[r].calls[k]
              IN /\ Len(body) > 0
                 /\ call.i = (k - 1) % Len(body)
                 /\ call.loop = (k - 1) \div Len(body)
                 /\ call.id = body[call.i + 1].id]_vars

C24_Witness ==
    \E r \in Slots :
      LET a == run[r] IN
      /\ a.pc = "handler"
      /\ Len(a.calls) = 2
      /\ Len(a.tasks) = 2
      /\ a.calls[1].id # a.calls[2].id
      /\ Len(tasks) = 2
      /\ tasks[1].id = a.tasks[2].id
      /\ tasks[2].id = a.tasks[1].id

\* C26 (as claimed): while isExecuting is true, a currentLoop that is set is
\* at least 2 and at most the totalLoops the status holds, which is set.
C26_CurrentLoopWithinTotal ==
    (executionStatus.isExecuting /\ executionStatus.currentLoop # Unset) =>
      /\ executionStatus.totalLoops # Unset
      /\ 2 <= executionStatus.currentLoop[1]
      /\ executionStatus.currentLoop[1] <= executionStatus.totalLoops[1]

\* C25: isPaused is true only while isExecuting is true.
C25_PausedOnlyWhileExecuting ==
    executionStatus.isPaused => executionStatus.isExecuting

C25_Witness ==
    \E r \in Slots :
      /\ executionStatus.isPaused
      /\ run[r].pc = "taskDelay"
      /\ run[r].i = Len(run[r].tasks) - 1
      /\ run[r].loopCount = 1

C27_WitnessNegative ==
    \E r \in Slots :
      LET a == run[r] IN
      /\ a.pc = "done"
      /\ Len(a.tasks) = 1
      /\ a.tasks[1].type = "loop"
      /\ a.loopCount = -1

\* The legacy sidebar alone: the other sidebar stays as constructed.
LegacyInit == InitWith({<< >>}) /\ webview

NextLegacy ==
    \/ LegacyExecuteClick
    \/ LegacyTimerFires
    \/ \E task \in LegacyNames : LegacyDrop(task)
    \/ \E idx \in 1..MaxLegacyTasks : LegacyRemove(idx)
    \/ \E q \in LegacyQueries : SetSearchQuery(q)

LegacySpec == LegacyInit /\ [][NextLegacy]_vars

\* the timers of a run fire
LegacyLiveSpec == LegacySpec /\ WF_vars(LegacyTimerFires)

\* the text a find task searches for when called with this context
Searched(task, context) ==
    IF ~Falsy(task.config.text) THEN task.config.text
    ELSE IF ~Falsy(task.config.selector) THEN task.config.selector
    ELSE IF Has(context, "lastFoundText") THEN context["lastFoundText"]
    ELSE Undefined

\* C28: when the handler of a find task that has a text to search for has
\* settled, it has either thrown the page view's error before it called
\* findInPage, or called findInPage and returned, with or without a visible
\* match: the task is completed and lastFoundText is the text; and a click
\* task without clickSelector dispatched next announces the click on the
\* element that holds that text.
C28_FindSucceedsWhateverThePageShows ==
    \A r \in Slots :
      LET a == run[r] IN
      JustSettled(a) =>
        LET call == LastCall(a)
            task == TaskOf(a, call.id)
        IN /\ (task.type = "find" /\ Searched(task, call.context) # Undefined) =>
                LET text == Searched(task, call.context) IN
                IF a.pc = "failed"
                THEN /\ Stored(call.id).error = "page error"
                     /\ ~CalledFindInPage
                ELSE /\ CalledFindInPage
                     /\ Stored(call.id).status = "completed"
                     /\ a.executionContext["lastFoundText"] = text
                     /\ LastLines(2)[1] \in
                          {Line("found and scrolled to", 0, text),
                           Line("found but may not be visible", 0, text)}
           /\ (/\ BareClick(task)
               /\ Len(a.calls) > 1
               /\ a.calls[Len(a.calls) - 1].loop = call.loop
               /\ TaskOf(a, a.calls[Len(a.calls) - 1].id).type = "find") =>
                LET find == a.calls[Len(a.calls) - 1]
                    text == Searched(TaskOf(a, find.id), find.context)
                IN /\ call.context["lastFoundText"] = text
                   /\ LastLines(3)[1] = Line("auto-targeting", 0, text)

C28_Witness ==
    \E r \in Slots :
      LET a == run[r]
          logs == executionStatus.logs
      IN
      /\ a.pc = "taskDelay"
      /\ Len(a.tasks) = 2
      /\ BareClick(a.tasks[2])
      /\ a.i = 1
      /\ \E n \in DOMAIN logs :
           logs[n] = Line("found but may not be visible", 0, "Contact")
      /\ LastLines(2)[1] = Line("clicked", 0, "found element")

\* C29: when the handler of a click task with a clickSelector has settled,
\* it has made the one call on the page view that clicks by selector,
\* whatever the context holds, and has announced no other target; when it
\* has returned, the context is the one it was called with, key for key, and
\* is the task's result.
C29_ClickBySelectorKeepsContext ==
    \A r \in Slots :
      LET a == run[r] IN
      (/\ JustSettled(a)
       /\ TaskOf(a, LastCall(a).id).type = "click"
       /\ ~Falsy(TaskOf(a, LastCall(a).id).config.clickSelector)) =>
        LET call == LastCall(a) IN
        /\ pageView = Issued("handler", <<"executeJavaScript">>)
        /\ IF a.pc = "taskDelay"
           THEN /\ LastLines(2) = <<Line("executing", a.i + 1, "click"),
                                    Line("completed", a.i + 1, "")>>
                /\ a.executionContext = call.context
                /\ Stored(call.id).result = call.context
                /\ "clickedElement" \notin DOMAIN a.executionContext
           ELSE /\ LastLines(2) = <<Line("executing", a.i + 1, "click"),
                                    Line("failed", a.i + 1, "page error")>>
                /\ Stored(call.id).error = "page error"

C29_Witness ==
    \E r \in Slots :
      LET a == run[r] IN
      /\ a.pc = "taskDelay"
      /\ a.i = 2
      /\ a.tasks[3].type = "click"
      /\ a.executionContext =
           [lastSearchQuery |-> "cats", lastFoundText |-> "Contact"]

\* the run has executed each task of its list once, in list order, and has
\* ended with the completion alert
LegacyCompleted(a) ==
    /\ a.pc = "done"
    /\ a.console = [k \in DOMAIN a.tasks |->
                      [index |-> k - 1, task |-> a.tasks[k]]]
    /\ a.alerts # << >>
    /\ a.alerts[Len(a.alerts)] = "All tasks executed in sequence!"
    /\ Cardinality({n \in DOMAIN a.alerts :
                      a.alerts[n] = "All tasks executed in sequence!"}) = 1

\* C30: in the legacy sidebar, every run of executeAll that has begun comes
\* to its end having executed each task of the list it was started with
\* exactly once, in list order, and having shown the completion alert last;
\* a Search task without a search query shows its alert and the tasks after
\* it run all the same.
C30_LegacyExecuteAllCompletes ==
    (legacy.run.pc # "idle") ~> LegacyCompleted(legacy.run)

C30_Witness ==
    LET a == legacy.run IN
    /\ LegacyCompleted(a)
    /\ a.tasks = <<"Search", "Find">>
    /\ a.searchQuery = ""
    /\ a.alerts = <<"Please enter a search term first.",
                     "Simulating: Find element on page...",
                     "All tasks executed in sequence!">>
    /\ a.opened = << >>

====
